---- MODULE Spec2Model ----
(***************************************************************************)
(* Model of the request-scoped audit context of ouharri/audit:             *)
(*   core/context.go           AuditableContext, its mutators and ToEvent  *)
(*   adapter/echo-adapter      EchoMw.Root and EchoMw.For                  *)
(*   port/auditor.go           the Auditor sink                            *)
(* Three specifications share the variables:                               *)
(*   CoreSpec  several execution units call the accumulator's API on one   *)
(*             accumulator built by the caller (zero-valued, Metadata nil) *)
(*   FnSpec    one unit calls the API on an accumulator whose fields are   *)
(*             drawn from bounded sets (the conversion as a function)      *)
(*   Spec      requests travel through Root / For / handler, Root takes    *)
(*             the snapshot and starts the delivery unit                   *)
(***************************************************************************)
EXTENDS Integers, Sequences, FiniteSets, TLC

\* ---------------------------------------------------------------- bounds
MaxReq     == 1      \* requests (one accumulator each)
NumWorkers == 1      \* execution units started by handlers, besides the request's own
MaxCalls   == 2      \* API calls begun by handlers and workers, in total

Requests == 1..MaxReq
Units    == 1..(MaxReq + NumWorkers)
Workers  == Units \ Requests

\* ---------------------------------------------------------------- values
Nil  == "nil"                      \* Go nil for any / pointer / interface values
Keys == {"a", "b"}                 \* metadata keys
EmptyMap == [k \in Keys |-> 0]     \* a map with no entry (0: key not present)
MapOf(k, n) == [EmptyMap EXCEPT ![k] = n]
MapAB(n, m) == [a |-> n, b |-> m]
KeysOf(m)   == {k \in Keys : m[k] # 0}

Serializable == {"d1", "d2"}       \* data values json.Marshal accepts
Codes == {0, 199, 200, 399, 400, 500}

\* json.Marshal: an encoding of the value, or an error (e.g. a chan value)
Json(v) == CASE v = "d1" -> "{d1}" [] v = "d2" -> "{d2}" [] OTHER -> Nil
Marshal(v) == IF v \in Serializable THEN [err |-> FALSE, data |-> Json(v)]
                                    ELSE [err |-> TRUE,  data |-> Nil]

\* ---------------------------------------------------------------- calls
Call(op, s, k, n, m) == [op |-> op, s |-> s, k |-> k, n |-> n, m |-> m]
NoCall       == Call("none", Nil, Nil, 0, EmptyMap)
ToEventCall  == Call("ToEvent", Nil, Nil, 0, EmptyMap)
SetUserIDCall(v)      == Call("SetUserID", v, Nil, 0, EmptyMap)
SetResourceIDCall(v)  == Call("SetResourceID", v, Nil, 0, EmptyMap)
SetOldDataCall(v)     == Call("SetOldData", v, Nil, 0, EmptyMap)
SetNewDataCall(v)     == Call("SetNewData", v, Nil, 0, EmptyMap)
SetMetadataCall(k, n) == Call("SetMetadata", Nil, k, n, MapOf(k, n))
SetBulkMetadataCall(m) == Call("SetBulkMetadata", Nil, Nil, 0, m)

ScalarOps == {"SetUserID", "SetResourceID", "SetOldData", "SetNewData"}
MergeOps  == {"SetMetadata", "SetBulkMetadata"}
Mutators  == ScalarOps \cup MergeOps

BulkArgs == {EmptyMap, MapOf("a", 1), MapOf("b", 2), MapAB(1, 2)}

\* calls issued against a caller-built accumulator (CoreSpec)
CoreCalls ==
    {SetUserIDCall(v) : v \in {"u1", "u2"}}
    \cup {SetResourceIDCall("r1")}
    \cup {SetOldDataCall(v) : v \in {"d1", "chan"}}
    \cup {SetNewDataCall("d2")}
    \cup {SetMetadataCall(k, n) : k \in Keys, n \in {1, 2}}
    \cup {SetBulkMetadataCall(m) : m \in BulkArgs}
    \cup {ToEventCall}

\* calls issued by handlers and their workers inside a request (Spec)
MwCalls ==
    {SetUserIDCall("u2"), SetResourceIDCall("r1"),
     SetBulkMetadataCall(MapAB(1, 2)), ToEventCall}

\* ---------------------------------------------------------------- decorators
\* a decorator call: its name and arguments (hasMap: the map argument is not nil)
Decorator(d, id, old, new, hasMap, m, page) ==
    [d |-> d, id |-> id, old |-> old, new |-> new,
     hasMap |-> hasMap, m |-> m, page |-> page]
NoDecorator == Decorator("none", Nil, Nil, Nil, FALSE, EmptyMap, Nil)
CreateCall(id, new)      == Decorator("AuditableCreate", id, Nil, new, FALSE, EmptyMap, Nil)
UpdateCall(id, old, new) == Decorator("AuditableUpdate", id, old, new, FALSE, EmptyMap, Nil)
DeleteCall(id, old)      == Decorator("AuditableDelete", id, old, Nil, FALSE, EmptyMap, Nil)
GetCall(id)              == Decorator("AuditableGet", id, Nil, Nil, FALSE, EmptyMap, Nil)
ListCall(hasMap, m)      == Decorator("AuditableList", Nil, Nil, Nil, hasMap, m, Nil)
PageCall(page)           == Decorator("AuditablePage", Nil, Nil, Nil, FALSE, EmptyMap, page)
ActionCall(id, hasMap, m) == Decorator("AuditableAction", id, Nil, Nil, hasMap, m, Nil)

\* page values: nil, a chan (not serializable), a slice (serializes to a JSON
\* array), a struct with fields a and b (serializes to a JSON object)
PageValues == {Nil, "chan", "slice", "struct"}
MapArgs    == {MapOf("a", 1)}

DecoratorCalls ==
    {CreateCall("r1", "d1")}
    \cup {UpdateCall("r1", "d1", "d2"), DeleteCall("r2", "d1"), GetCall("r2")}
    \cup {ListCall(FALSE, EmptyMap)} \cup {ListCall(TRUE, m) : m \in MapArgs}
    \cup {PageCall(p) : p \in PageValues}
    \cup {ActionCall("r1", FALSE, EmptyMap), ActionCall("r1", TRUE, MapOf("b", 2))}

\* decorators called by handlers and their workers inside a request (Spec)
MwDecorators == {UpdateCall("r1", "d1", "d2")}

\* ---------------------------------------------------------------- records
\* c.Response(): nil, or a response with its Status
NoResponse == [isNil |-> TRUE, Status |-> 0]
Responses == {NoResponse}
             \cup {[isNil |-> FALSE, Status |-> st] : st \in {200, 500}}

\* transport.Config: which optional functions are set
Configs == [Skipper : {Nil, "fn"}, UserFromContext : {Nil, "fn"}]
NoConfig == [Skipper |-> Nil, UserFromContext |-> Nil]

\* the mw variable: nil, or the *EchoMw that NewEchoMiddleware returned
NoMw == [isNil |-> TRUE, cfg |-> NoConfig]
NewEchoMiddleware(c) == [isNil |-> FALSE, cfg |-> c]

\* a sync.Once: zero value, and after Do has run its function
NewOnce  == [done |-> FALSE, m |-> 0]
OnceDone == [done |-> TRUE, m |-> 0]

\* a call of the package functions: out is "ok" or "panic" once Root() or
\* For() has ended; early and fresh record whether no Configure call had
\* returned, resp. begun, when it was called
WireCall(op, c, at, out, early, fresh) ==
    [op |-> op, cfg |-> c, pc |-> at, out |-> out, early |-> early, fresh |-> fresh]
NoWire == WireCall("none", NoConfig, "idle", "none", FALSE, FALSE)

ZeroAc ==
    [TraceID |-> 0, UserID |-> Nil, Action |-> Nil, Resource |-> Nil,
     ResourceID |-> Nil, OldData |-> Nil, NewData |-> Nil, Metadata |-> 0,
     IPAddress |-> "", UserAgent |-> "", RequestURI |-> "", Method |-> "",
     ResponseCode |-> 0, StartTime |-> 0, EndTime |-> 0]

\* the fields of an accumulator or an event that the callers' mutators set,
\* Metadata apart
CallerFields(x) ==
    [UserID |-> x.UserID, ResourceID |-> x.ResourceID,
     OldData |-> x.OldData, NewData |-> x.NewData]

NoEvent ==
    [TraceID |-> 0, UserID |-> Nil, Action |-> Nil, Resource |-> Nil,
     ResourceID |-> Nil, Metadata |-> 0,
     IPAddress |-> "", UserAgent |-> "", RequestURI |-> "", Method |-> "",
     ResponseCode |-> 0, Success |-> FALSE, StartTime |-> 0, EndTime |-> 0,
     OldData |-> Nil, NewData |-> Nil, valid |-> FALSE]

VARIABLES
    ac,         \* ac[a]: the fields of accumulator a
    heap,       \* the maps made so far; a Metadata field holds an index, 0 is nil
    mu,         \* mu[a]: the RWMutex, w = unit holding Lock (0 none), r = units holding RLock
    lastLocked, \* lastLocked[a]: per field and key, the value of the call that took the lock last
    on,         \* on[u]: the accumulator unit u holds a reference to (0 none)
    pc,         \* pc[u]: position of unit u inside an API call
    cur,        \* cur[u]: the API call unit u is in, or made last
    todo,       \* todo[u]: keys the merge loop of unit u has still to write
    ev,         \* ev[u]: the event ToEvent is building for unit u
    ret,        \* ret[u]: the event the last ToEvent returned to unit u
    started,    \* number of API calls begun by handlers and workers
    opts,       \* opts[u]: the options SetContext has still to apply for unit u
    deco,       \* deco[u]: the decorator call unit u is in, or made last
    since,      \* since[a]: the event ToEvent returned last, while a is not changed since
    rootPc,     \* rootPc[r]: position of request r in Root / For / handler
    skipped,    \* skipped[r]: the Skipper returned true
    attached,   \* attached[r]: value stored under AuditableCtxKey for request r (0 none)
    nextCalls,  \* nextCalls[r]: times Root invoked next(c)
    handlerErr, \* handlerErr[r]: the error next(c) returned
    rootRet,    \* rootRet[r]: the error Root returned
    audits,     \* audits[r]: number of go Audit statements executed for r
    audit,      \* audit[r]: state of the delivery unit of r
    delivered,  \* delivered[r]: the event handed to Auditor.Audit
    crashed,    \* the process died of an unrecovered panic
    cfg,        \* transport.Config: which optional functions are set
    response,   \* response[r]: what c.Response() returns once next(c) has returned
    clock,      \* time.Now()
    nextTrace,  \* the value NewTraceID returns next
    once,       \* the package's sync.Once: its done flag and the holder of its mutex
    mw,         \* the package's middleware singleton (nil until the first Configure)
    wire,       \* wire[u]: the Configure, Root() or For() call unit u is in, or made last
    confLog,    \* number of Configure calls begun and returned so far
    handled     \* handled[r]: who and what the accumulator of r named when next(c) returned

vars == <<ac, heap, mu, lastLocked, on, pc, cur, todo, ev, ret, started,
          opts, deco, since,
          rootPc, skipped, attached, nextCalls, handlerErr, rootRet,
          audits, audit, delivered, crashed, cfg, response, clock, nextTrace,
          once, mw, wire, confLog, handled>>

apiVars == <<ac, heap, mu, lastLocked, pc, cur, todo, ev, ret, started>>
decoVars == <<opts, deco>>
mwVarsButPc == <<skipped, attached, nextCalls, handlerErr, rootRet,
                 audits, audit, delivered, crashed, cfg, response, clock, nextTrace,
          once, mw, wire, confLog, handled>>
mwVars  == <<rootPc, skipped, attached, nextCalls, handlerErr, rootRet,
             audits, audit, delivered, crashed, cfg, response, clock, nextTrace,
          once, mw, wire, confLog, handled>>
confVars == <<once, mw, wire, confLog>>

\* ---------------------------------------------------------------- sync.RWMutex
Unlocked == [w |-> 0, r |-> {}]

WLockFree_none(a) == TRUE
\* Lock() returns once no writer and no reader holds the mutex
WLockFree(a) == mu[a].w = 0 /\ mu[a].r = {}

RLockFree_none(a) == TRUE
\* RLock() returns once no writer holds the mutex
RLockFree(a) == mu[a].w = 0

\* ---------------------------------------------------------------- helpers
\* the map a Metadata field refers to (nil reads as a map with no entry)
Deref(h, ref) == IF ref = 0 THEN EmptyMap ELSE h[ref]

Success_off(code) == code > 200 /\ code < 400
Success(code) == code >= 200 /\ code < 400

\* the struct literal of ToEvent
Literal(a) ==
    [TraceID |-> ac[a].TraceID, UserID |-> ac[a].UserID,
     Action |-> ac[a].Action, Resource |-> ac[a].Resource,
     ResourceID |-> ac[a].ResourceID, Metadata |-> ac[a].Metadata,
     IPAddress |-> ac[a].IPAddress, UserAgent |-> ac[a].UserAgent,
     RequestURI |-> ac[a].RequestURI, Method |-> ac[a].Method,
     ResponseCode |-> ac[a].ResponseCode,
     Success |-> Success(ac[a].ResponseCode),
     StartTime |-> ac[a].StartTime, EndTime |-> ac[a].EndTime,
     OldData |-> Nil, NewData |-> Nil, valid |-> TRUE]

Serialized_strict(e, a) ==
    LET o == Marshal(ac[a].OldData)
        n == Marshal(ac[a].NewData)
    IN  IF (ac[a].OldData # Nil /\ o.err) \/ (ac[a].NewData # Nil /\ n.err)
          THEN NoEvent
          ELSE [e EXCEPT !.OldData = IF ac[a].OldData # Nil THEN o.data ELSE @,
                         !.NewData = IF ac[a].NewData # Nil THEN n.data ELSE @]
\* the two json.Marshal blocks of ToEvent
Serialized(e, a) ==
    LET o == Marshal(ac[a].OldData)
        n == Marshal(ac[a].NewData)
    IN  [e EXCEPT !.OldData = IF ac[a].OldData # Nil /\ ~o.err THEN o.data ELSE @,
                  !.NewData = IF ac[a].NewData # Nil /\ ~n.err THEN n.data ELSE @]

\* what a mutator call writes, per field and key, over what was written before
NothingWritten ==
    [UserID |-> Nil, ResourceID |-> Nil, OldData |-> Nil, NewData |-> Nil,
     Metadata |-> EmptyMap]
Written(w, c) ==
    CASE c.op = "SetUserID"     -> [w EXCEPT !.UserID = c.s]
      [] c.op = "SetResourceID" -> [w EXCEPT !.ResourceID = c.s]
      [] c.op = "SetOldData"    -> [w EXCEPT !.OldData = c.s]
      [] c.op = "SetNewData"    -> [w EXCEPT !.NewData = c.s]
      [] c.op \in MergeOps      ->
           [w EXCEPT !.Metadata = [k \in Keys |-> IF c.m[k] # 0 THEN c.m[k] ELSE @[k]]]

\* a unit may begin an API call: it holds a reference and is between calls;
\* a request's own unit makes its calls from the handler
MayCall(u) ==
    /\ ~crashed
    /\ on[u] # 0
    /\ pc[u] = "idle"
    /\ opts[u] = << >>
    /\ u \in Requests => rootPc[u] = "handler"
    /\ started < MaxCalls

\* ---------------------------------------------------------------- API steps
Begin(u, c) ==
    /\ MayCall(u)
    /\ cur' = [cur EXCEPT ![u] = c]
    /\ pc' = [pc EXCEPT ![u] = "lock"]
    /\ started' = started + 1
    /\ UNCHANGED <<ac, heap, mu, lastLocked, on, todo, ev, ret>>
    /\ UNCHANGED mwVars
    /\ UNCHANGED <<decoVars, since>>

\* ac.mu.Lock()
Lock(u) ==
    LET a == on[u] IN
    /\ ~crashed
    /\ pc[u] = "lock"
    /\ cur[u].op \in Mutators
    /\ WLockFree(a)
    /\ mu' = [mu EXCEPT ![a].w = u]
    /\ lastLocked' = [lastLocked EXCEPT ![a] = Written(@, cur[u])]
    /\ pc' = [pc EXCEPT ![u] = IF cur[u].op \in ScalarOps THEN "body" ELSE "chk"]
    /\ UNCHANGED <<ac, heap, on, cur, todo, ev, ret, started>>
    /\ UNCHANGED mwVars
    /\ since' = [since EXCEPT ![a] = NoEvent]
    /\ UNCHANGED decoVars

\* ac.X = value
Assign(u) ==
    LET a == on[u]
        c == cur[u] IN
    /\ ~crashed
    /\ pc[u] = "body"
    /\ ac' = [ac EXCEPT ![a] =
                CASE c.op = "SetUserID"     -> [@ EXCEPT !.UserID = c.s]
                  [] c.op = "SetResourceID" -> [@ EXCEPT !.ResourceID = c.s]
                  [] c.op = "SetOldData"    -> [@ EXCEPT !.OldData = c.s]
                  [] c.op = "SetNewData"    -> [@ EXCEPT !.NewData = c.s]]
    /\ pc' = [pc EXCEPT ![u] = "unlock"]
    /\ UNCHANGED <<heap, mu, lastLocked, on, cur, todo, ev, ret, started>>
    /\ UNCHANGED mwVars
    /\ UNCHANGED <<decoVars, since>>

CheckNil_always(u) ==
    /\ ~crashed
    /\ pc[u] = "chk"
    /\ todo' = [todo EXCEPT ![u] = KeysOf(cur[u].m)]
    /\ pc' = [pc EXCEPT ![u] = "make"]
    /\ UNCHANGED <<ac, heap, mu, lastLocked, on, cur, ev, ret, started>>
    /\ UNCHANGED mwVars
    /\ UNCHANGED <<decoVars, since>>
\* if ac.Metadata == nil
CheckNil(u) ==
    LET a == on[u] IN
    /\ ~crashed
    /\ pc[u] = "chk"
    /\ todo' = [todo EXCEPT ![u] = KeysOf(cur[u].m)]
    /\ pc' = [pc EXCEPT ![u] =
                IF ac[a].Metadata = 0 THEN "make"
                ELSE IF KeysOf(cur[u].m) = {} THEN "unlock" ELSE "put"]
    /\ UNCHANGED <<ac, heap, mu, lastLocked, on, cur, ev, ret, started>>
    /\ UNCHANGED mwVars
    /\ UNCHANGED <<decoVars, since>>

\* ac.Metadata = make(map[string]interface{})
Make(u) ==
    LET a == on[u] IN
    /\ ~crashed
    /\ pc[u] = "make"
    /\ heap' = Append(heap, EmptyMap)
    /\ ac' = [ac EXCEPT ![a].Metadata = Len(heap) + 1]
    /\ pc' = [pc EXCEPT ![u] = IF todo[u] = {} THEN "unlock" ELSE "put"]
    /\ UNCHANGED <<mu, lastLocked, on, cur, todo, ev, ret, started>>
    /\ UNCHANGED mwVars
    /\ UNCHANGED <<decoVars, since>>

Put_keep(u) ==
    LET a == on[u] IN
    /\ ~crashed
    /\ pc[u] = "put"
    /\ \E k \in todo[u] :
        /\ heap' = [heap EXCEPT ![ac[a].Metadata][k] =
                    IF @ # 0 THEN @ ELSE cur[u].m[k]]
        /\ todo' = [todo EXCEPT ![u] = @ \ {k}]
        /\ pc' = [pc EXCEPT ![u] = IF todo[u] = {k} THEN "unlock" ELSE "put"]
    /\ UNCHANGED <<ac, mu, lastLocked, on, cur, ev, ret, started>>
    /\ UNCHANGED mwVars
    /\ UNCHANGED <<decoVars, since>>
\* ac.Metadata[k] = v, once per key of the argument, in any order
Put(u) ==
    LET a == on[u] IN
    /\ ~crashed
    /\ pc[u] = "put"
    /\ \E k \in todo[u] :
        /\ heap' = [heap EXCEPT ![ac[a].Metadata][k] = cur[u].m[k]]
        /\ todo' = [todo EXCEPT ![u] = @ \ {k}]
        /\ pc' = [pc EXCEPT ![u] = IF todo[u] = {k} THEN "unlock" ELSE "put"]
    /\ UNCHANGED <<ac, mu, lastLocked, on, cur, ev, ret, started>>
    /\ UNCHANGED mwVars
    /\ UNCHANGED <<decoVars, since>>

Unlock_keeps(u) ==
    LET a == on[u] IN
    /\ ~crashed
    /\ pc[u] = "unlock"
    /\ mu' = mu
    /\ pc' = [pc EXCEPT ![u] = "idle"]
    /\ UNCHANGED <<ac, heap, lastLocked, on, cur, todo, ev, ret, started>>
    /\ UNCHANGED mwVars
    /\ UNCHANGED <<decoVars, since>>
\* defer ac.mu.Unlock()
Unlock(u) ==
    LET a == on[u] IN
    /\ ~crashed
    /\ pc[u] = "unlock"
    /\ mu' = [mu EXCEPT ![a].w = IF @ = u THEN 0 ELSE @]
    /\ pc' = [pc EXCEPT ![u] = "idle"]
    /\ UNCHANGED <<ac, heap, lastLocked, on, cur, todo, ev, ret, started>>
    /\ UNCHANGED mwVars
    /\ UNCHANGED <<decoVars, since>>

\* ac.mu.RLock()
RLock(u) ==
    LET a == on[u] IN
    /\ ~crashed
    /\ pc[u] = "lock"
    /\ cur[u].op = "ToEvent"
    /\ RLockFree(a)
    /\ mu' = [mu EXCEPT ![a].r = @ \cup {u}]
    /\ pc' = [pc EXCEPT ![u] = "lit"]
    /\ UNCHANGED <<ac, heap, lastLocked, on, cur, todo, ev, ret, started>>
    /\ UNCHANGED mwVars
    /\ UNCHANGED <<decoVars, since>>

\* event := AuditEvent{...}
BuildEvent(u) ==
    /\ ~crashed
    /\ pc[u] = "lit"
    /\ ev' = [ev EXCEPT ![u] = Literal(on[u])]
    /\ pc' = [pc EXCEPT ![u] = "ser"]
    /\ UNCHANGED <<ac, heap, mu, lastLocked, on, cur, todo, ret, started>>
    /\ UNCHANGED mwVars
    /\ UNCHANGED <<decoVars, since>>

SerializeData_consuming(u) ==
    /\ ~crashed
    /\ pc[u] = "ser"
    /\ ev' = [ev EXCEPT ![u] = Serialized(@, on[u])]
    /\ ac' = [ac EXCEPT ![on[u]].OldData = Nil, ![on[u]].NewData = Nil]
    /\ pc' = [pc EXCEPT ![u] = "runlock"]
    /\ UNCHANGED <<heap, mu, lastLocked, on, cur, todo, ret, started>>
    /\ UNCHANGED mwVars
    /\ UNCHANGED <<decoVars, since>>
\* the json.Marshal of OldData and NewData
SerializeData(u) ==
    /\ ~crashed
    /\ pc[u] = "ser"
    /\ ev' = [ev EXCEPT ![u] = Serialized(@, on[u])]
    /\ pc' = [pc EXCEPT ![u] = "runlock"]
    /\ UNCHANGED <<ac, heap, mu, lastLocked, on, cur, todo, ret, started>>
    /\ UNCHANGED mwVars
    /\ UNCHANGED <<decoVars, since>>

\* return event, with the deferred ac.mu.RUnlock()
ReturnEvent(u) ==
    LET a == on[u] IN
    /\ ~crashed
    /\ pc[u] = "runlock"
    /\ mu' = [mu EXCEPT ![a].r = @ \ {u}]
    /\ ret' = [ret EXCEPT ![u] = ev[u]]
    /\ ev' = [ev EXCEPT ![u] = NoEvent]
    /\ pc' = [pc EXCEPT ![u] = "idle"]
    /\ UNCHANGED <<ac, heap, lastLocked, on, cur, todo, started>>
    /\ UNCHANGED mwVars
    /\ since' = [since EXCEPT ![a] = ev[u]]
    /\ UNCHANGED decoVars

ApiStep(u) ==
    \/ Lock(u) \/ Assign(u) \/ CheckNil(u) \/ Make(u) \/ Put(u) \/ Unlock(u)
    \/ RLock(u) \/ BuildEvent(u) \/ SerializeData(u) \/ ReturnEvent(u)

\* ---------------------------------------------------------------- CoreSpec
InitCommon ==
    /\ heap = << >>
    /\ mu = [a \in Requests |-> Unlocked]
    /\ lastLocked = [a \in Requests |-> NothingWritten]
    /\ pc = [u \in Units |-> "idle"]
    /\ cur = [u \in Units |-> NoCall]
    /\ todo = [u \in Units |-> {}]
    /\ ev = [u \in Units |-> NoEvent]
    /\ ret = [u \in Units |-> NoEvent]
    /\ started = 0
    /\ opts = [u \in Units |-> << >>]
    /\ deco = [u \in Units |-> [call |-> NoDecorator, n |-> 0]]
    /\ since = [a \in Requests |-> NoEvent]
    /\ skipped = [r \in Requests |-> FALSE]
    /\ attached = [r \in Requests |-> 0]
    /\ nextCalls = [r \in Requests |-> 0]
    /\ handlerErr = [r \in Requests |-> Nil]
    /\ rootRet = [r \in Requests |-> Nil]
    /\ audits = [r \in Requests |-> 0]
    /\ audit = [r \in Requests |-> "none"]
    /\ delivered = [r \in Requests |-> NoEvent]
    /\ crashed = FALSE
    /\ response = [r \in Requests |-> NoResponse]
    /\ clock = 1
    /\ nextTrace = 1
    /\ wire = [u \in Units |-> NoWire]
    /\ confLog = [begun |-> 0, returned |-> 0]
    /\ handled = [r \in Requests |-> CallerFields(ZeroAc)]

\* one accumulator built by the caller as a zero struct value (Metadata nil);
\* the caller's unit and every worker hold a reference to it
CoreInit ==
    /\ InitCommon
    /\ ac = [a \in Requests |-> ZeroAc]
    /\ on = [u \in Units |-> IF u = 1 \/ u \in Workers THEN 1 ELSE 0]
    /\ rootPc = [r \in Requests |-> "handler"]
    /\ cfg = NoConfig
    /\ once = NewOnce
    /\ mw = NoMw

CoreBegin == \E u \in Units : \E c \in CoreCalls : Begin(u, c)
CoreStep  == \E u \in Units : ApiStep(u)

CoreNext == CoreBegin \/ CoreStep

CoreSpec == CoreInit /\ [][CoreNext]_vars

\* every unit that is inside a call gets to run, and a call that waits for
\* the mutex gets it once it stays free
LiveCoreSpec == CoreSpec /\ \A u \in Units : WF_vars(ApiStep(u))

\* ---------------------------------------------------------------- FnSpec
\* one accumulator built by the caller with field values of its choice, used
\* by one unit only
FnInit ==
    /\ InitCommon
    /\ \E code \in Codes, o \in {Nil, "d1", "chan"}, n \in {Nil, "d2", "chan"} :
         ac = [a \in Requests |->
                 [ZeroAc EXCEPT !.ResponseCode = code, !.OldData = o, !.NewData = n]]
    /\ on = [u \in Units |-> IF u = 1 THEN 1 ELSE 0]
    /\ rootPc = [r \in Requests |-> "handler"]
    /\ cfg = NoConfig
    /\ once = NewOnce
    /\ mw = NoMw

FnSpec == FnInit /\ [][CoreNext]_vars

\* ---------------------------------------------------------------- options
\* an option is the mutator call it makes on the accumulator it is given
WithResourceID(v)   == SetResourceIDCall(v)
WithOldData(v)      == SetOldDataCall(v)
WithNewData(v)      == SetNewDataCall(v)
WithBulkMetadata(m) == SetBulkMetadataCall(m)

\* json.Marshal(pageData)
MarshalPage(p) ==
    CASE p = Nil      -> [err |-> FALSE, data |-> "null"]
      [] p = "slice"  -> [err |-> FALSE, data |-> "[1,2]"]
      [] p = "struct" -> [err |-> FALSE, data |-> "{a:1,b:2}"]
      [] OTHER        -> [err |-> TRUE,  data |-> ""]

\* json.Unmarshal(bytes, &metadata) into a nil map[string]interface{}
UnmarshalMap(bytes) ==
    CASE bytes = "null"      -> [err |-> FALSE, m |-> EmptyMap]
      [] bytes = "{a:1,b:2}" -> [err |-> FALSE, m |-> MapAB(1, 2)]
      [] OTHER               -> [err |-> TRUE,  m |-> EmptyMap]

\* the options each decorator hands to SetContext (none: SetContext not reached)
AuditableCreate_old(id, new) == <<WithResourceID(id), WithOldData(new)>>
AuditableCreate(id, new) == <<WithResourceID(id), WithNewData(new)>>
AuditableUpdate_swapped(id, old, new) ==
    <<WithResourceID(id), WithOldData(new), WithNewData(old)>>
AuditableUpdate(id, old, new) ==
    <<WithResourceID(id), WithOldData(old), WithNewData(new)>>
AuditableDelete_both(id, old) ==
    <<WithResourceID(id), WithOldData(old), WithNewData(Nil)>>
AuditableDelete(id, old) == <<WithResourceID(id), WithOldData(old)>>
AuditableGet(id) == <<WithResourceID(id)>>
AuditableList_unchecked(hasMap, m) == <<WithBulkMetadata(m)>>
AuditableList(hasMap, m) == IF hasMap THEN <<WithBulkMetadata(m)>> ELSE << >>
AuditablePage_unchecked(page) ==
    LET b == MarshalPage(page)
        r == UnmarshalMap(b.data)
    IN  IF b.err THEN << >> ELSE <<WithBulkMetadata(r.m)>>
AuditablePage(page) ==
    LET b == MarshalPage(page)
        r == UnmarshalMap(b.data)
    IN  IF b.err THEN << >>
        ELSE IF r.err THEN << >>
        ELSE <<WithBulkMetadata(r.m)>>
AuditableAction(id, hasMap, m) ==
    <<WithResourceID(id)>> \o (IF hasMap THEN <<WithBulkMetadata(m)>> ELSE << >>)

Options(c) ==
    CASE c.d = "AuditableCreate" -> AuditableCreate(c.id, c.new)
      [] c.d = "AuditableUpdate" -> AuditableUpdate(c.id, c.old, c.new)
      [] c.d = "AuditableDelete" -> AuditableDelete(c.id, c.old)
      [] c.d = "AuditableGet"    -> AuditableGet(c.id)
      [] c.d = "AuditableList"   -> AuditableList(c.hasMap, c.m)
      [] c.d = "AuditablePage"   -> AuditablePage(c.page)
      [] c.d = "AuditableAction" -> AuditableAction(c.id, c.hasMap, c.m)

\* the accumulator stored in the context of unit u (0: none)
GetAuditContext(u) == on[u]

HasContext_unchecked(u) == TRUE
\* if ac := GetAuditContext(ctx); ac != nil
HasContext(u) == GetAuditContext(u) # 0

\* a unit may call a decorator: it is between calls (its context may carry
\* no accumulator)
MayDecorate(u) ==
    /\ ~crashed
    /\ pc[u] = "idle"
    /\ opts[u] = << >>
    /\ u \in Requests => rootPc[u] = "handler"
    /\ started < MaxCalls

\* a decorator is called and reaches SetContext(ctx, opts...): the options
\* are applied only to an accumulator found in ctx; applying one to a nil
\* accumulator is a nil dereference in the mutator
SetContext(u, c) ==
    LET os == IF HasContext(u) THEN Options(c) ELSE << >> IN
    /\ MayDecorate(u)
    /\ deco' = [deco EXCEPT ![u] = [call |-> c, n |-> started + 1]]
    /\ started' = started + 1
    /\ IF os # << >> /\ GetAuditContext(u) = 0
         THEN crashed' = TRUE /\ opts' = opts
         ELSE crashed' = crashed /\ opts' = [opts EXCEPT ![u] = os]
    /\ UNCHANGED <<ac, heap, mu, lastLocked, on, pc, cur, todo, ev, ret, since>>
    /\ UNCHANGED <<rootPc, skipped, attached, nextCalls, handlerErr, rootRet,
                   audits, audit, delivered, cfg, clock, nextTrace>>
    /\ UNCHANGED <<response, confVars, handled>>

ApplyOption_last(u) ==
    /\ ~crashed
    /\ pc[u] = "idle"
    /\ opts[u] # << >>
    /\ cur' = [cur EXCEPT ![u] = opts[u][Len(opts[u])]]
    /\ opts' = [opts EXCEPT ![u] = SubSeq(@, 1, Len(@) - 1)]
    /\ pc' = [pc EXCEPT ![u] = "lock"]
    /\ UNCHANGED <<ac, heap, mu, lastLocked, on, todo, ev, ret, started, deco, since>>
    /\ UNCHANGED mwVars
\* opt(ac): the next option of the loop calls its mutator
ApplyOption(u) ==
    /\ ~crashed
    /\ pc[u] = "idle"
    /\ opts[u] # << >>
    /\ cur' = [cur EXCEPT ![u] = Head(opts[u])]
    /\ opts' = [opts EXCEPT ![u] = Tail(@)]
    /\ pc' = [pc EXCEPT ![u] = "lock"]
    /\ UNCHANGED <<ac, heap, mu, lastLocked, on, todo, ev, ret, started, deco, since>>
    /\ UNCHANGED mwVars

\* ---------------------------------------------------------------- DecoSpec
\* one zero-valued accumulator, carried by the context of one unit; the
\* contexts of the other units carry none
DecoInit ==
    /\ InitCommon
    /\ ac = [a \in Requests |-> ZeroAc]
    /\ on = [u \in Units |-> IF u = 1 THEN 1 ELSE 0]
    /\ rootPc = [r \in Requests |-> "handler"]
    /\ cfg = NoConfig
    /\ once = NewOnce
    /\ mw = NoMw

DecoBegin == \E u \in Units : \E c \in DecoratorCalls : SetContext(u, c)
DecoApply == \E u \in Units : ApplyOption(u)
DecoToEvent == \E u \in Units : Begin(u, ToEventCall)

DecoNext == DecoBegin \/ DecoApply \/ DecoToEvent \/ CoreStep

DecoSpec == DecoInit /\ [][DecoNext]_vars


\* ---------------------------------------------------------------- EchoMw
\* what the request carries (c.RealIP(), UserAgent(), RequestURI, Method)
ReqIP     == "10.0.0.1"
ReqAgent  == "curl"
ReqURI    == "/users/1"
ReqMethod == "POST"
ForResource == "User"       \* the EntityType given to For
ForAction   == "CREATE"     \* the ActionType given to the factory
Errors    == {Nil, "err"}   \* what next(c) returns

Trigger_always(a) == TRUE
\* auditCtx.Resource != nil && auditCtx.Action != nil
Trigger(a) == a.Resource # Nil /\ a.Action # Nil

RootResult_nil(r) == Nil
\* return err
RootResult(r) == handlerErr[r]

RootStart_ignoring(r) ==
    /\ ~crashed
    /\ rootPc[r] = "start"
    /\ \E s \in (IF cfg.Skipper = Nil THEN {FALSE} ELSE BOOLEAN) :
        /\ skipped' = [skipped EXCEPT ![r] = s]
        /\ rootPc' = [rootPc EXCEPT ![r] = "construct"]
    /\ UNCHANGED <<attached, nextCalls, handlerErr, rootRet, audits, audit,
                   delivered, crashed, cfg, clock, nextTrace>>
    /\ UNCHANGED <<apiVars, on>>
    /\ UNCHANGED <<decoVars, since>>
    /\ UNCHANGED <<response, confVars, handled>>
\* if em.cfg.Skipper != nil && em.cfg.Skipper(ctx)
RootStart(r) ==
    /\ ~crashed
    /\ rootPc[r] = "start"
    /\ \E s \in (IF cfg.Skipper = Nil THEN {FALSE} ELSE BOOLEAN) :
        /\ skipped' = [skipped EXCEPT ![r] = s]
        /\ rootPc' = [rootPc EXCEPT ![r] = IF s THEN "next" ELSE "construct"]
    /\ UNCHANGED <<attached, nextCalls, handlerErr, rootRet, audits, audit,
                   delivered, crashed, cfg, clock, nextTrace>>
    /\ UNCHANGED <<apiVars, on>>
    /\ UNCHANGED <<decoVars, since>>
    /\ UNCHANGED <<response, confVars, handled>>

\* auditCtx := &core.AuditableContext{...}; core.SetEchoAuditContext(c, auditCtx)
RootConstruct(r) ==
    /\ ~crashed
    /\ rootPc[r] = "construct"
    /\ heap' = Append(heap, EmptyMap)
    /\ ac' = [ac EXCEPT ![r] =
                [ZeroAc EXCEPT !.TraceID = nextTrace,
                               !.Metadata = Len(heap) + 1,
                               !.IPAddress = ReqIP, !.UserAgent = ReqAgent,
                               !.RequestURI = ReqURI, !.Method = ReqMethod,
                               !.StartTime = clock]]
    /\ nextTrace' = nextTrace + 1
    /\ clock' = clock + 1
    /\ attached' = [attached EXCEPT ![r] = r]
    /\ on' = [on EXCEPT ![r] = r]
    /\ rootPc' = [rootPc EXCEPT ![r] = "next"]
    /\ UNCHANGED <<mu, lastLocked, pc, cur, todo, ev, ret, started>>
    /\ UNCHANGED <<skipped, nextCalls, handlerErr, rootRet, audits, audit,
                   delivered, crashed, cfg>>
    /\ UNCHANGED <<decoVars, since>>
    /\ UNCHANGED <<response, confVars, handled>>

\* next(c): the route either carries the For middleware or not
RootCallNext(r) ==
    /\ ~crashed
    /\ rootPc[r] = "next"
    /\ nextCalls' = [nextCalls EXCEPT ![r] = @ + 1]
    /\ \E route \in {"for", "handler"} :
         rootPc' = [rootPc EXCEPT ![r] = route]
    /\ UNCHANGED <<skipped, attached, handlerErr, rootRet, audits, audit,
                   delivered, crashed, cfg, clock, nextTrace>>
    /\ UNCHANGED <<apiVars, on>>
    /\ UNCHANGED <<decoVars, since>>
    /\ UNCHANGED <<response, confVars, handled>>

ForMw_retrace(r) ==
    /\ ~crashed
    /\ rootPc[r] = "for"
    /\ IF attached[r] # 0
         THEN \E u \in (IF cfg.UserFromContext = Nil THEN {Nil} ELSE {Nil, "u1"}) :
                ac' = [ac EXCEPT ![attached[r]] =
                         [@ EXCEPT !.TraceID = nextTrace,
                                   !.Resource = ForResource,
                                   !.Action = ForAction,
                                   !.UserID = IF u # Nil THEN u ELSE @]]
         ELSE ac' = ac
    /\ rootPc' = [rootPc EXCEPT ![r] = "handler"]
    /\ UNCHANGED <<heap, mu, lastLocked, pc, cur, todo, ev, ret, started, on>>
    /\ UNCHANGED mwVarsButPc
    /\ since' = [a \in Requests |-> IF a = attached[r] THEN NoEvent ELSE since[a]]
    /\ UNCHANGED decoVars
ForMw_noAction(r) ==
    /\ ~crashed
    /\ rootPc[r] = "for"
    /\ IF attached[r] # 0
         THEN \E u \in (IF cfg.UserFromContext = Nil THEN {Nil} ELSE {Nil, "u1"}) :
                ac' = [ac EXCEPT ![attached[r]] =
                         [@ EXCEPT !.Resource = ForResource,
                                   !.UserID = IF u # Nil THEN u ELSE @]]
         ELSE ac' = ac
    /\ rootPc' = [rootPc EXCEPT ![r] = "handler"]
    /\ UNCHANGED <<heap, mu, lastLocked, pc, cur, todo, ev, ret, started, on>>
    /\ UNCHANGED mwVarsButPc
    /\ since' = [a \in Requests |-> IF a = attached[r] THEN NoEvent ELSE since[a]]
    /\ UNCHANGED decoVars
\* the handler returned by For(resource)(action)
ForMw(r) ==
    /\ ~crashed
    /\ rootPc[r] = "for"
    /\ IF attached[r] # 0
         THEN \E u \in (IF cfg.UserFromContext = Nil THEN {Nil} ELSE {Nil, "u1"}) :
                ac' = [ac EXCEPT ![attached[r]] =
                         [@ EXCEPT !.Resource = ForResource,
                                   !.Action = ForAction,
                                   !.UserID = IF u # Nil THEN u ELSE @]]
         ELSE ac' = ac
    /\ rootPc' = [rootPc EXCEPT ![r] = "handler"]
    /\ UNCHANGED <<heap, mu, lastLocked, pc, cur, todo, ev, ret, started, on>>
    /\ UNCHANGED mwVarsButPc
    /\ since' = [a \in Requests |-> IF a = attached[r] THEN NoEvent ELSE since[a]]
    /\ UNCHANGED decoVars

\* the handler starts an execution unit that keeps the accumulator
HandlerGo(r, w) ==
    /\ ~crashed
    /\ rootPc[r] = "handler"
    /\ pc[r] = "idle"
    /\ opts[r] = << >>
    /\ on[r] # 0
    /\ w \in Workers
    /\ on[w] = 0
    /\ on' = [on EXCEPT ![w] = on[r]]
    /\ UNCHANGED apiVars
    /\ UNCHANGED mwVars
    /\ UNCHANGED <<decoVars, since>>

\* err := next(c)
HandlerReturn(r, err) ==
    /\ ~crashed
    /\ rootPc[r] = "handler"
    /\ pc[r] = "idle"
    /\ opts[r] = << >>
    /\ handlerErr' = [handlerErr EXCEPT ![r] = err]
    /\ \E resp \in Responses : response' = [response EXCEPT ![r] = resp]
    /\ handled' = [handled EXCEPT ![r] = CallerFields(ac[r])]
    /\ UNCHANGED confVars
    /\ rootPc' = [rootPc EXCEPT ![r] = IF skipped[r] THEN "ret" ELSE "stamp_end"]
    /\ UNCHANGED <<skipped, attached, nextCalls, rootRet, audits, audit,
                   delivered, crashed, cfg, clock, nextTrace>>
    /\ UNCHANGED <<apiVars, on>>
    /\ UNCHANGED <<decoVars, since>>

\* auditCtx.EndTime = time.Now()
StampEnd(r) ==
    /\ ~crashed
    /\ rootPc[r] = "stamp_end"
    /\ ac' = [ac EXCEPT ![r].EndTime = clock]
    /\ clock' = clock + 1
    /\ rootPc' = [rootPc EXCEPT ![r] = "stamp_code"]
    /\ UNCHANGED <<heap, mu, lastLocked, pc, cur, todo, ev, ret, started, on>>
    /\ UNCHANGED <<skipped, attached, nextCalls, handlerErr, rootRet, audits,
                   audit, delivered, crashed, cfg, nextTrace>>
    /\ since' = [since EXCEPT ![r] = NoEvent]
    /\ UNCHANGED decoVars
    /\ UNCHANGED <<response, confVars, handled>>

StampCode_none(r) ==
    /\ ~crashed
    /\ rootPc[r] = "stamp_code"
    /\ LET resp == response[r] IN
         ac' = [ac EXCEPT ![r].ResponseCode = IF resp.isNil THEN @ ELSE @]
    /\ rootPc' = [rootPc EXCEPT ![r] = "pred"]
    /\ UNCHANGED <<heap, mu, lastLocked, pc, cur, todo, ev, ret, started, on>>
    /\ UNCHANGED mwVarsButPc
    /\ since' = [since EXCEPT ![r] = NoEvent]
    /\ UNCHANGED decoVars
\* if resp := c.Response(); resp != nil { auditCtx.ResponseCode = resp.Status }
StampCode(r) ==
    /\ ~crashed
    /\ rootPc[r] = "stamp_code"
    /\ LET resp == response[r] IN
         ac' = [ac EXCEPT ![r].ResponseCode = IF resp.isNil THEN @ ELSE resp.Status]
    /\ rootPc' = [rootPc EXCEPT ![r] = "pred"]
    /\ UNCHANGED <<heap, mu, lastLocked, pc, cur, todo, ev, ret, started, on>>
    /\ UNCHANGED mwVarsButPc
    /\ since' = [since EXCEPT ![r] = NoEvent]
    /\ UNCHANGED decoVars

\* if auditCtx.Resource != nil && auditCtx.Action != nil: enter auditCtx.ToEvent()
RootPred(r) ==
    /\ ~crashed
    /\ rootPc[r] = "pred"
    /\ IF Trigger(ac[r])
         THEN /\ rootPc' = [rootPc EXCEPT ![r] = "toevent"]
              /\ cur' = [cur EXCEPT ![r] = ToEventCall]
              /\ pc' = [pc EXCEPT ![r] = "lock"]
         ELSE /\ rootPc' = [rootPc EXCEPT ![r] = "ret"]
              /\ UNCHANGED <<cur, pc>>
    /\ UNCHANGED <<ac, heap, mu, lastLocked, todo, ev, ret, started, on>>
    /\ UNCHANGED mwVarsButPc
    /\ UNCHANGED <<decoVars, since>>

RootGo_inline(r) ==
    /\ ~crashed
    /\ rootPc[r] = "toevent"
    /\ pc[r] = "idle"
    /\ audits' = [audits EXCEPT ![r] = @ + 1]
    /\ audit' = audit
    /\ delivered' = [delivered EXCEPT ![r] = ret[r]]
    /\ rootPc' = [rootPc EXCEPT ![r] = "ret"]
    /\ UNCHANGED <<skipped, attached, nextCalls, handlerErr, rootRet,
                   crashed, cfg, clock, nextTrace>>
    /\ UNCHANGED <<apiVars, on>>
    /\ UNCHANGED <<decoVars, since>>
    /\ UNCHANGED <<response, confVars, handled>>
\* go em.cfg.Auditor.Audit(ctx, <the event ToEvent returned>)
RootGo(r) ==
    /\ ~crashed
    /\ rootPc[r] = "toevent"
    /\ pc[r] = "idle"
    /\ audits' = [audits EXCEPT ![r] = @ + 1]
    /\ audit' = [audit EXCEPT ![r] = "spawned"]
    /\ delivered' = [delivered EXCEPT ![r] = ret[r]]
    /\ rootPc' = [rootPc EXCEPT ![r] = "ret"]
    /\ UNCHANGED <<skipped, attached, nextCalls, handlerErr, rootRet,
                   crashed, cfg, clock, nextTrace>>
    /\ UNCHANGED <<apiVars, on>>
    /\ UNCHANGED <<decoVars, since>>
    /\ UNCHANGED <<response, confVars, handled>>

RootReturn_sync(r) ==
    /\ ~crashed
    /\ rootPc[r] = "ret"
    /\ audit[r] \in {"none", "returned"}
    /\ rootRet' = [rootRet EXCEPT ![r] = RootResult(r)]
    /\ rootPc' = [rootPc EXCEPT ![r] = "done"]
    /\ UNCHANGED <<skipped, attached, nextCalls, handlerErr, audits, audit,
                   delivered, crashed, cfg, clock, nextTrace>>
    /\ UNCHANGED <<apiVars, on>>
    /\ UNCHANGED <<decoVars, since>>
    /\ UNCHANGED <<response, confVars, handled>>
\* return err (also the skipped path's return next(c))
RootReturn(r) ==
    /\ ~crashed
    /\ rootPc[r] = "ret"
    /\ rootRet' = [rootRet EXCEPT ![r] = RootResult(r)]
    /\ rootPc' = [rootPc EXCEPT ![r] = "done"]
    /\ UNCHANGED <<skipped, attached, nextCalls, handlerErr, audits, audit,
                   delivered, crashed, cfg, clock, nextTrace>>
    /\ UNCHANGED <<apiVars, on>>
    /\ UNCHANGED <<decoVars, since>>
    /\ UNCHANGED <<response, confVars, handled>>

\* ---------------------------------------------------------------- Auditor
AuditStart_late(r) ==
    /\ ~crashed
    /\ audit[r] = "spawned"
    /\ audit' = [audit EXCEPT ![r] = "running"]
    /\ UNCHANGED <<rootPc, skipped, attached, nextCalls, handlerErr, rootRet,
                   audits, crashed, cfg, clock, nextTrace>>
    /\ delivered' = [delivered EXCEPT ![r] = Serialized(Literal(r), r)]
    /\ UNCHANGED <<apiVars, on>>
    /\ UNCHANGED <<decoVars, since>>
    /\ UNCHANGED <<response, confVars, handled>>
\* the delivery unit gets to run: Auditor.Audit(ctx, event) is entered
AuditStart(r) ==
    /\ ~crashed
    /\ audit[r] = "spawned"
    /\ audit' = [audit EXCEPT ![r] = "running"]
    /\ UNCHANGED <<rootPc, skipped, attached, nextCalls, handlerErr, rootRet,
                   audits, delivered, crashed, cfg, clock, nextTrace>>
    /\ UNCHANGED <<apiVars, on>>
    /\ UNCHANGED <<decoVars, since>>
    /\ UNCHANGED <<response, confVars, handled>>

\* Audit returns (delivered or failed: it has no result)
AuditReturn(r) ==
    /\ ~crashed
    /\ audit[r] = "running"
    /\ audit' = [audit EXCEPT ![r] = "returned"]
    /\ UNCHANGED <<rootPc, skipped, attached, nextCalls, handlerErr, rootRet,
                   audits, delivered, crashed, cfg, clock, nextTrace>>
    /\ UNCHANGED <<apiVars, on>>
    /\ UNCHANGED <<decoVars, since>>
    /\ UNCHANGED <<response, confVars, handled>>

\* Audit panics: nothing on the delivery unit's stack recovers, the process dies
AuditPanic(r) ==
    /\ ~crashed
    /\ audit[r] = "running"
    /\ audit' = [audit EXCEPT ![r] = "panicked"]
    /\ crashed' = TRUE
    /\ UNCHANGED <<rootPc, skipped, attached, nextCalls, handlerErr, rootRet,
                   audits, delivered, cfg, clock, nextTrace>>
    /\ UNCHANGED <<apiVars, on>>
    /\ UNCHANGED <<decoVars, since>>
    /\ UNCHANGED <<response, confVars, handled>>

\* ---------------------------------------------------------------- Spec
Init ==
    /\ InitCommon
    /\ ac = [a \in Requests |-> ZeroAc]
    /\ on = [u \in Units |-> 0]
    /\ rootPc = [r \in Requests |-> "start"]
    /\ cfg \in Configs
    /\ once = OnceDone
    /\ mw = NewEchoMiddleware(cfg)

MwBegin == \E u \in Units : \E c \in MwCalls : Begin(u, c)
MwDecorate ==
    \/ \E u \in Units : \E c \in MwDecorators : SetContext(u, c)
    \/ \E u \in Units : ApplyOption(u)
\* Root made the map, so no call inside a request reaches Make
MwStep  ==
    \E u \in Units :
        \/ Lock(u) \/ Assign(u) \/ CheckNil(u) \/ Put(u) \/ Unlock(u)
        \/ RLock(u) \/ BuildEvent(u) \/ SerializeData(u) \/ ReturnEvent(u)
RootStep(r) ==
    \/ RootStart(r) \/ RootConstruct(r) \/ RootCallNext(r) \/ ForMw(r)
    \/ (\E w \in Workers : HandlerGo(r, w))
    \/ (\E err \in Errors : HandlerReturn(r, err))
    \/ StampEnd(r) \/ StampCode(r) \/ RootPred(r) \/ RootGo(r) \/ RootReturn(r)
AuditStep(r) == AuditStart(r) \/ AuditReturn(r) \/ AuditPanic(r)

Next ==
    \/ MwBegin
    \/ MwDecorate
    \/ MwStep
    \/ \E r \in Requests : RootStep(r)
    \/ \E r \in Requests : AuditStep(r)

Spec == Init /\ [][Next]_vars

\* the unit started by the go statement gets to run
LiveSpec == Spec /\ \A r \in Requests : WF_vars(AuditStart(r))


\* ---------------------------------------------------------------- echoadapter singleton
\* what Configure, Root() and For() leave alone
confFrame == <<ac, heap, mu, lastLocked, on, pc, cur, todo, ev, ret, opts, deco,
               since, rootPc, skipped, attached, nextCalls, handlerErr, rootRet,
               audits, audit, delivered, cfg, response, clock, nextTrace, handled>>

\* a unit may call a function of the package: it is in none
MayWire(u) ==
    /\ ~crashed
    /\ wire[u].pc = "idle"
    /\ started < MaxCalls

\* Configure(cfg) is called
Configure(u, c) ==
    /\ MayWire(u)
    /\ wire' = [wire EXCEPT ![u] = WireCall("Configure", c, "do", "none", FALSE, FALSE)]
    /\ confLog' = [confLog EXCEPT !.begun = @ + 1]
    /\ started' = started + 1
    /\ UNCHANGED <<once, mw, crashed, confFrame>>

\* once.Do: the fast path returns when done is set
OnceDo(u) ==
    /\ ~crashed
    /\ wire[u].pc = "do"
    /\ wire' = [wire EXCEPT ![u].pc = IF once.done THEN "ret" ELSE "slow"]
    /\ UNCHANGED <<once, mw, confLog, started, crashed, confFrame>>

OnceLock_unguarded(u) ==
    /\ ~crashed
    /\ wire[u].pc = "slow"
    /\ once.m = 0
    /\ once' = [once EXCEPT !.m = u]
    /\ wire' = [wire EXCEPT ![u].pc = "f"]
    /\ UNCHANGED <<mw, confLog, started, crashed, confFrame>>
\* once.Do: the slow path takes the mutex of the Once and looks at done again
OnceLock(u) ==
    /\ ~crashed
    /\ wire[u].pc = "slow"
    /\ once.m = 0
    /\ once' = [once EXCEPT !.m = u]
    /\ wire' = [wire EXCEPT ![u].pc = IF once.done THEN "unlock" ELSE "f"]
    /\ UNCHANGED <<mw, confLog, started, crashed, confFrame>>

\* mw = NewEchoMiddleware(cfg)
OnceF(u) ==
    /\ ~crashed
    /\ wire[u].pc = "f"
    /\ mw' = NewEchoMiddleware(wire[u].cfg)
    /\ wire' = [wire EXCEPT ![u].pc = "unlock"]
    /\ UNCHANGED <<once, confLog, started, crashed, confFrame>>

\* once.Do: the deferred store of done and the deferred Unlock
OnceUnlock(u) ==
    /\ ~crashed
    /\ wire[u].pc = "unlock"
    /\ once' = OnceDone
    /\ wire' = [wire EXCEPT ![u].pc = "ret"]
    /\ UNCHANGED <<mw, confLog, started, crashed, confFrame>>

\* Configure returns
ConfigureReturn(u) ==
    /\ ~crashed
    /\ wire[u].pc = "ret"
    /\ wire' = [wire EXCEPT ![u].pc = "idle"]
    /\ confLog' = [confLog EXCEPT !.returned = @ + 1]
    /\ UNCHANGED <<once, mw, started, crashed, confFrame>>

\* the body shared by Root() and For(): if mw == nil { panic } return mw.X()
WireRead(u, op) ==
    /\ MayWire(u)
    /\ wire' = [wire EXCEPT ![u] =
                  WireCall(op, mw.cfg, "idle", IF mw.isNil THEN "panic" ELSE "ok",
                           confLog.returned = 0, confLog.begun = 0)]
    /\ crashed' = mw.isNil
    /\ started' = started + 1
    /\ UNCHANGED <<once, mw, confLog, confFrame>>

\* echoadapter.Root()
Root(u) == WireRead(u, "Root")
\* echoadapter.For(resource)
For(u) == WireRead(u, "For")

ConfigureStep(u) ==
    OnceDo(u) \/ OnceLock(u) \/ OnceF(u) \/ OnceUnlock(u) \/ ConfigureReturn(u)

\* the process before any call of the package: units call Configure, Root()
\* and For() in any order and concurrently
ConfInit ==
    /\ InitCommon
    /\ ac = [a \in Requests |-> ZeroAc]
    /\ on = [u \in Units |-> 0]
    /\ rootPc = [r \in Requests |-> "start"]
    /\ cfg = NoConfig
    /\ once = NewOnce
    /\ mw = NoMw

ConfNext ==
    \/ \E u \in Units : \E c \in Configs : Configure(u, c)
    \/ \E u \in Units : ConfigureStep(u)
    \/ \E u \in Units : Root(u)
    \/ \E u \in Units : For(u)

ConfSpec == ConfInit /\ [][ConfNext]_vars

\* ---------------------------------------------------------------- AuditEvent JSON
OmitEmpty_none ==
    [traceId |-> FALSE, userId |-> FALSE, action |-> FALSE, resource |-> FALSE,
     resourceId |-> FALSE, metadata |-> FALSE, ipAddress |-> FALSE,
     userAgent |-> FALSE, requestUri |-> FALSE, method |-> FALSE,
     responseCode |-> FALSE, success |-> FALSE, startTime |-> FALSE,
     endTime |-> FALSE, oldData |-> FALSE, newData |-> FALSE]
\* the json struct tags of AuditEvent: the key of each field, and whether it
\* carries omitempty
OmitEmpty ==
    [traceId |-> FALSE, userId |-> TRUE, action |-> TRUE, resource |-> TRUE,
     resourceId |-> TRUE, metadata |-> TRUE, ipAddress |-> TRUE,
     userAgent |-> TRUE, requestUri |-> TRUE, method |-> TRUE,
     responseCode |-> TRUE, success |-> TRUE, startTime |-> FALSE,
     endTime |-> FALSE, oldData |-> TRUE, newData |-> TRUE]

\* encoding/json's empty values, per key: nil interface or pointer, map or
\* byte slice of length 0, "", 0, false; a time.Time struct is never empty
EmptyValue(h, e) ==
    [traceId |-> e.TraceID = 0, userId |-> e.UserID = Nil,
     action |-> e.Action = Nil, resource |-> e.Resource = Nil,
     resourceId |-> e.ResourceID = Nil,
     metadata |-> KeysOf(Deref(h, e.Metadata)) = {},
     ipAddress |-> e.IPAddress = "", userAgent |-> e.UserAgent = "",
     requestUri |-> e.RequestURI = "", method |-> e.Method = "",
     responseCode |-> e.ResponseCode = 0, success |-> ~e.Success,
     startTime |-> FALSE, endTime |-> FALSE,
     oldData |-> e.OldData = Nil, newData |-> e.NewData = Nil]

\* json.Marshal(event): the keys of the object it writes
EventKeys(h, e) ==
    {k \in DOMAIN OmitEmpty : ~(OmitEmpty[k] /\ EmptyValue(h, e)[k])}

\* ================================================================ claims
AllIdle(a) == \A u \in Units : on[u] = a => pc[u] = "idle"

\* what a ToEvent call on accumulator a shows now, maps read through
Shown(a) ==
    LET e == Serialized(Literal(a), a)
    IN  [UserID |-> e.UserID, ResourceID |-> e.ResourceID,
         OldData |-> e.OldData, NewData |-> e.NewData,
         Metadata |-> Deref(heap, e.Metadata)]

\* the serialized form of a data value, absent when it has none
Encoded(v) == IF v \in Serializable THEN Json(v) ELSE Nil

\* C1 (CoreSpec): once every call has returned, ToEvent shows for each field
\* and each metadata key exactly the value of the call that took the lock
\* last on it, and the unwritten value (nil, no entry) where no call wrote.
C1_LastWriteWins ==
    \A a \in Requests :
        AllIdle(a) =>
            /\ Shown(a).UserID = lastLocked[a].UserID
            /\ Shown(a).ResourceID = lastLocked[a].ResourceID
            /\ Shown(a).OldData = Encoded(lastLocked[a].OldData)
            /\ Shown(a).NewData = Encoded(lastLocked[a].NewData)
            /\ Shown(a).Metadata = lastLocked[a].Metadata

\* two units have written the same field with different values and the same
\* key with different values, and all calls have returned
C1_Witness ==
    /\ AllIdle(1)
    /\ \E u, v \in Units :
        /\ u # v
        /\ cur[u].op = "SetUserID" /\ cur[v].op = "SetUserID"
        /\ cur[u].s # cur[v].s
        /\ started = 2

\* C2 (CoreSpec): SetBulkMetadata({a:1}) and SetBulkMetadata({b:2}) issued by
\* two units on an accumulator whose Metadata is nil leave, once both have
\* returned, a mapping that holds both a and b.
TwoFirstWriters ==
    /\ started = 2
    /\ AllIdle(1)
    /\ \E u, v \in Units :
        /\ u # v
        /\ cur[u] = SetBulkMetadataCall(MapOf("a", 1))
        /\ cur[v] = SetBulkMetadataCall(MapOf("b", 2))

C2_BothKeysKept ==
    TwoFirstWriters => Deref(heap, ac[1].Metadata) = MapAB(1, 2)

C2_Witness ==
    /\ TwoFirstWriters
    /\ Len(heap) = 1
    /\ ac[1].Metadata = 1

\* an event as its holder reads it: the Metadata map is read through the reference
EventView(h, e) == [e EXCEPT !.Metadata = Deref(h, e.Metadata)]

\* C3 (Spec): an event ToEvent has returned never changes afterwards, in
\* any field nor in its Metadata mapping, whatever is called on the accumulator.
C3_EventImmutable ==
    [][\A u \in Units :
          (ret[u].valid /\ ret'[u] = ret[u])
              => EventView(heap', ret'[u]) = EventView(heap, ret[u])]_vars

\* C4 (Spec): a non-skipped request that Root has returned from executed the
\* go Audit statement once if Resource and Action are both set and not at all
\* otherwise; no request executes it twice.
C4_AuditOncePerRequest ==
    \A r \in Requests :
        /\ audits[r] <= 1
        /\ (rootPc[r] = "done" /\ ~skipped[r]) =>
              audits[r] = IF ac[r].Resource # Nil /\ ac[r].Action # Nil THEN 1 ELSE 0
        /\ (rootPc[r] = "done" /\ skipped[r]) => audits[r] = 0

C4_Witness ==
    \E r \in Requests :
        /\ rootPc[r] = "done" /\ ~skipped[r]
        /\ ac[r].Resource = ForResource /\ ac[r].Action = ForAction
        /\ audits[r] = 1

\* the fields the request's unit is about to access without the lock
UnlockedAccess(r) ==
    CASE rootPc[r] = "for" /\ attached[r] # 0 -> {"Resource", "Action", "UserID"}
      [] rootPc[r] = "stamp_end"  -> {"EndTime"}
      [] rootPc[r] = "stamp_code" -> {"ResponseCode"}
      [] rootPc[r] = "pred"       -> {"Resource", "Action"}
      [] OTHER -> {}

\* the fields unit u is about to access inside its critical section
LockedAccess(u) ==
    CASE pc[u] = "body" ->
            (CASE cur[u].op = "SetUserID"     -> {"UserID"}
               [] cur[u].op = "SetResourceID" -> {"ResourceID"}
               [] cur[u].op = "SetOldData"    -> {"OldData"}
               [] cur[u].op = "SetNewData"    -> {"NewData"})
      [] pc[u] \in {"chk", "make", "put"} -> {"Metadata"}
      [] pc[u] = "lit" ->
            {"TraceID", "UserID", "Action", "Resource", "ResourceID", "Metadata",
             "IPAddress", "UserAgent", "RequestURI", "Method", "ResponseCode",
             "StartTime", "EndTime"}
      [] pc[u] = "ser" -> {"OldData", "NewData"}
      [] OTHER -> {}

\* C5 (Spec): no unit accesses a field of an attached accumulator outside the
\* lock while another unit is inside ToEvent or a mutator accessing that field.
C5_AllAccessLocked ==
    \A r \in Requests : \A u \in Units :
        (u # r /\ on[u] = r) => UnlockedAccess(r) \cap LockedAccess(u) = {}

\* unit v is inside a merge that has written some but not all of its keys
Partial(v) == pc[v] = "put" /\ todo[v] # KeysOf(cur[v].m)

\* C6 (CoreSpec): when ToEvent returns, the mapping its event carries is not
\* the target of a merge that has written only part of its keys.
C6_NoPartialMerge ==
    \A u, v \in Units :
        (u # v /\ on[u] = on[v] /\ pc[u] = "runlock" /\ Partial(v))
            => ev[u].Metadata # ac[on[v]].Metadata

\* a ToEvent is about to return while a two-key merge on the same accumulator
\* has been called and waits for the lock
C6_Witness ==
    \E u, v \in Units :
        /\ u # v
        /\ pc[u] = "runlock"
        /\ cur[v] = SetBulkMetadataCall(MapAB(1, 2))
        /\ pc[v] = "lock"
        /\ on[u] = on[v]

\* C7 (Spec): in a running process, while the Audit of a request has not
\* started or has not returned, Root's return for that request is enabled.
C7_ReturnNotWaiting ==
    \A r \in Requests :
        (~crashed /\ rootPc[r] = "ret" /\ audit[r] \in {"spawned", "running"})
            => ENABLED RootReturn(r)

\* Root has returned and Audit has not returned
C7_Witness ==
    \E r \in Requests :
        /\ rootPc[r] = "done"
        /\ audit[r] \in {"spawned", "running"}

\* C8 (Spec): whatever Audit does, a request that is about to return can
\* return.
C8_AuditIsolated ==
    \A r \in Requests : rootPc[r] = "ret" => ENABLED RootReturn(r)

\* C9 (Spec): Root invokes next at most once, and when Root has returned it
\* has invoked it once and returned the error next returned.
C9_Transparent ==
    \A r \in Requests :
        /\ nextCalls[r] <= 1
        /\ rootPc[r] = "done" => (nextCalls[r] = 1 /\ rootRet[r] = handlerErr[r])

C9_Witness ==
    \E r \in Requests :
        /\ rootPc[r] = "done"
        /\ ~skipped[r]
        /\ audits[r] = 1
        /\ rootRet[r] = "err"

\* C10 (FnSpec): the event ToEvent returns carries the accumulator's response
\* code, and Success is true exactly when 200 <= ResponseCode < 400.
C10_SuccessRule ==
    \A u \in Units :
        ret[u].valid =>
            /\ ret[u].ResponseCode = ac[on[u]].ResponseCode
            /\ ret[u].Success <=> (200 <= ret[u].ResponseCode /\ ret[u].ResponseCode < 400)
            /\ ret[u].ResponseCode \in {0, 199, 400, 500} => ~ret[u].Success

C10_Witness ==
    \E u \in Units :
        /\ ret[u].valid
        /\ ret[u].ResponseCode = 200
        /\ ret[u].Success

\* unit u takes a step inside ToEvent
InToEvent(u) == cur[u].op = "ToEvent" /\ pc[u] # "idle" /\ pc'[u] # pc[u]

\* C11 (FnSpec): no step of ToEvent changes the accumulator or a map, and a
\* ToEvent that returns while the accumulator has not been changed since the
\* previous ToEvent returned, returns an event equal to the previous one in
\* every field.
C11_ToEventRepeatable ==
    [][\A u \in Units :
          /\ InToEvent(u) => (ac' = ac /\ heap' = heap)
          /\ (InToEvent(u) /\ pc'[u] = "idle" /\ since[on[u]].valid)
                => /\ ret'[u] = since[on[u]]
                   /\ EventView(heap', ret'[u]) = EventView(heap, since[on[u]])]_vars

\* two ToEvent calls and no other call were made on an accumulator that holds
\* data, and both have returned
C11_Witness ==
    \E u \in Units :
        /\ on[u] # 0
        /\ started = 2
        /\ lastLocked[on[u]] = NothingWritten
        /\ cur[u] = ToEventCall /\ pc[u] = "idle"
        /\ ret[u].valid /\ since[on[u]] = ret[u]
        /\ ret[u].OldData = "{d1}"

\* the fields ToEvent copies from the accumulator
CopiedFields ==
    {"TraceID", "UserID", "Action", "Resource", "ResourceID", "Metadata",
     "IPAddress", "UserAgent", "RequestURI", "Method", "ResponseCode",
     "StartTime", "EndTime"}

\* C12 (FnSpec): every step of ToEvent can be taken whatever OldData and
\* NewData hold; the event about to be returned carries the serialized form
\* of each data value that is set and serializable and nothing for one that
\* is nil or not serializable, and every other field as the accumulator
\* holds it.
C12_ToEventNeverFails ==
    \A u \in Units :
        /\ pc[u] = "lit" => ENABLED BuildEvent(u)
        /\ pc[u] = "ser" => ENABLED SerializeData(u)
        /\ pc[u] = "runlock" =>
              /\ ENABLED ReturnEvent(u)
              /\ ev[u].valid
              /\ ev[u].OldData = Encoded(ac[on[u]].OldData)
              /\ ev[u].NewData = Encoded(ac[on[u]].NewData)
              /\ \A f \in CopiedFields : ev[u][f] = ac[on[u]][f]
              /\ ev[u].Success = Success(ac[on[u]].ResponseCode)

\* ToEvent is about to return on an accumulator whose OldData cannot be
\* serialized and whose NewData can
C12_Witness ==
    \E u \in Units :
        /\ pc[u] = "runlock"
        /\ ac[on[u]].OldData = "chan" /\ ac[on[u]].NewData = "d2"
        /\ ev[u].OldData = Nil /\ ev[u].NewData = "{d2}"
        /\ ev[u].ResponseCode = 200 /\ ev[u].Success

\* C13 (DecoSpec): a decorator or SetContext called with a context that
\* carries no accumulator returns at once and normally: the call changes no
\* accumulator, map or lock, starts no mutator and raises nothing.
C13_NoContextNoOp ==
    [][\A u \in Units :
          (GetAuditContext(u) = 0 /\ deco'[u] # deco[u])
              => /\ ac' = ac /\ heap' = heap /\ mu' = mu
                 /\ pc' = pc /\ cur' = cur /\ opts'[u] = << >>
                 /\ ~crashed']_vars

\* a unit whose context carries no accumulator has made both calls, the last
\* one AuditableAction with a map, and the accumulator is still zero-valued
C13_Witness ==
    \E u \in Units :
        /\ on[u] = 0
        /\ deco[u] = [call |-> ActionCall("r1", TRUE, MapOf("b", 2)), n |-> 2]
        /\ \A v \in Units \ {u} : deco[v].call = NoDecorator /\ cur[v] = NoCall
        /\ ac[1] = ZeroAc /\ heap = << >>
        /\ ~crashed

\* C14 (Spec): the serialized form of every event handed to the Auditor has
\* the keys traceId, success, startTime and endTime.
C14_RequiredKeys ==
    \A r \in Requests :
        delivered[r].valid =>
            {"traceId", "success", "startTime", "endTime"}
                \subseteq EventKeys(heap, delivered[r])

\* UserID, Action, Resource, OldData and NewData of accumulator a are nil and
\* its Metadata is nil or a map with no entry
NeverSet(a) ==
    /\ ac[a].UserID = Nil /\ ac[a].Action = Nil /\ ac[a].Resource = Nil
    /\ ac[a].OldData = Nil /\ ac[a].NewData = Nil
    /\ KeysOf(Deref(heap, ac[a].Metadata)) = {}

\* C15 (CoreSpec): the event ToEvent is about to return for an accumulator
\* whose UserID, Action, Resource, Metadata, OldData and NewData were never
\* set serializes without the keys userId, action, resource, metadata,
\* oldData and newData.
C15_UnsetKeysAbsent ==
    \A u \in Units :
        (pc[u] = "runlock" /\ NeverSet(on[u]))
            => EventKeys(heap, ev[u])
                 \cap {"userId", "action", "resource", "metadata", "oldData", "newData"}
                 = {}

\* ToEvent is about to return for an accumulator that holds a made map with
\* no entry and no other optional value
C15_Witness ==
    \E u \in Units :
        /\ pc[u] = "runlock"
        /\ NeverSet(on[u])
        /\ ac[on[u]].Metadata # 0
        /\ ev[u].Metadata = ac[on[u]].Metadata
        /\ EventKeys(heap, ev[u]) = {"traceId", "startTime", "endTime"}

\* unit u called decorator c first, on the zero-valued accumulator its context
\* carries, then ToEvent, and no other call was made
DecoratedThenToEvent(u, c) ==
    /\ on[u] # 0
    /\ started = 2
    /\ deco[u] = [call |-> c, n |-> 1]
    /\ cur[u] = ToEventCall /\ pc[u] = "idle"
    /\ ret[u].valid

C17_UpdateShape ==
    \A u \in Units : \A c \in DecoratorCalls :
        (/\ c.d = "AuditableUpdate"
         /\ c.old \in Serializable /\ c.new \in Serializable /\ c.old # c.new
         /\ DecoratedThenToEvent(u, c))
            => /\ ret[u].ResourceID = c.id
               /\ ret[u].OldData = Json(c.old)
               /\ ret[u].NewData = Json(c.new)
               /\ ret[u].OldData # ret[u].NewData
               /\ {"oldData", "newData"} \subseteq EventKeys(heap, ret[u])

C17_Witness ==
    \E u \in Units :
        /\ DecoratedThenToEvent(u, UpdateCall("r1", "d1", "d2"))
        /\ ret[u].OldData = "{d1}"
        /\ ret[u].NewData = "{d2}"

\* the fields a decorator call may change
Row(c) ==
    CASE c.d = "AuditableCreate" -> {"ResourceID", "NewData"}
      [] c.d = "AuditableUpdate" -> {"ResourceID", "OldData", "NewData"}
      [] c.d = "AuditableDelete" -> {"ResourceID", "OldData"}
      [] c.d = "AuditableGet"    -> {"ResourceID"}
      [] c.d = "AuditableList"   -> IF c.hasMap THEN {"Metadata"} ELSE {}
      [] c.d = "AuditablePage"   -> {"Metadata"}
      [] c.d = "AuditableAction" ->
            {"ResourceID"} \cup (IF c.hasMap THEN {"Metadata"} ELSE {})
      [] OTHER -> {}

\* the fields of accumulator a a step changes (Metadata: the reference or a map)
Changed(a) ==
    {f \in DOMAIN ZeroAc : ac'[a][f] # ac[a][f]}
    \cup (IF heap' # heap THEN {"Metadata"} ELSE {})

\* C18 (DecoSpec): every step a unit takes changes only fields in the row
\* of the decorator it called: AuditableDelete ResourceID and OldData,
\* AuditableGet ResourceID, AuditableAction ResourceID and, when a map is
\* supplied, Metadata; no decorator changes TraceID, UserID, Action, Resource
\* or a transport field.
C18_DecoratorFrame ==
    [][\A u \in Units :
          (on[u] # 0 /\ pc'[u] # pc[u])
              => /\ Changed(on[u]) \subseteq Row(deco[u].call)
                 /\ Changed(on[u]) \cap
                      {"TraceID", "UserID", "Action", "Resource", "IPAddress",
                       "UserAgent", "RequestURI", "Method", "ResponseCode",
                       "StartTime", "EndTime"} = {}]_vars

\* AuditableDelete has returned on an accumulator that held NewData, which
\* it still holds
C18_Witness ==
    \E u \in Units :
        /\ on[u] # 0
        /\ deco[u] = [call |-> DeleteCall("r2", "d1"), n |-> 2]
        /\ pc[u] = "idle" /\ opts[u] = << >> /\ cur[u] = SetOldDataCall("d1")
        /\ ac[on[u]].ResourceID = "r2"
        /\ ac[on[u]].OldData = "d1"
        /\ ac[on[u]].NewData = "d2"

\* C19 (DecoSpec): on an accumulator whose Metadata is nil, AuditableList(ctx,
\* nil) then ToEvent returns an event with nil Metadata and no metadata key;
\* AuditableList(ctx, m) with m not empty then ToEvent returns an event whose
\* metadata equals m.
C19_ListShape ==
    \A u \in Units : \A c \in DecoratorCalls :
        (c.d = "AuditableList" /\ DecoratedThenToEvent(u, c))
            => /\ ~c.hasMap =>
                    /\ ret[u].Metadata = 0
                    /\ "metadata" \notin EventKeys(heap, ret[u])
               /\ (c.hasMap /\ KeysOf(c.m) # {}) =>
                    /\ Deref(heap, ret[u].Metadata) = c.m
                    /\ "metadata" \in EventKeys(heap, ret[u])

C19_Witness ==
    \E u \in Units :
        /\ DecoratedThenToEvent(u, ListCall(TRUE, MapOf("a", 1)))
        /\ Deref(heap, ret[u].Metadata) = MapOf("a", 1)

\* either step of AuditablePage's round trip fails for page value p
RoundTripFails(p) ==
    \/ MarshalPage(p).err
    \/ UnmarshalMap(MarshalPage(p).data).err

\* C20 (DecoSpec): AuditablePage called with a page value that cannot be
\* serialized, or whose serialization is not an object, returns without
\* calling a mutator: no field and no map changes, no map is made, nothing
\* is raised.
C20_PageFailureNoOp ==
    [][\A u \in Units :
          (/\ deco'[u] # deco[u]
           /\ deco'[u].call.d = "AuditablePage"
           /\ RoundTripFails(deco'[u].call.page))
              => /\ ac' = ac /\ heap' = heap /\ mu' = mu
                 /\ pc' = pc /\ cur' = cur /\ opts'[u] = << >>
                 /\ ~crashed']_vars

\* AuditablePage has been called with a slice on an accumulator that holds
\* the metadata {a: 1}, and holds it still
C20_Witness ==
    \E u \in Units :
        /\ on[u] # 0
        /\ deco[u] = [call |-> PageCall("slice"), n |-> 2]
        /\ pc[u] = "idle" /\ opts[u] = << >>
        /\ ac[on[u]].Metadata = 1
        /\ heap = <<MapOf("a", 1)>>

\* C21 (CoreSpec): no step of a SetBulkMetadata call whose argument is nil
\* or has no entry changes the accumulator's Metadata: a nil mapping stays
\* nil, an existing mapping keeps its entries, nothing is raised.
C21_EmptyMergeNoOp ==
    [][\A u \in Units :
          (/\ on[u] # 0
           /\ cur[u].op = "SetBulkMetadata" /\ KeysOf(cur[u].m) = {}
           /\ pc[u] # "idle" /\ pc'[u] # pc[u])
              => /\ ac'[on[u]].Metadata = ac[on[u]].Metadata
                 /\ heap' = heap
                 /\ ~crashed']_vars

\* C22 (Spec): the TraceID of an accumulator is the value NewTraceID
\* returned when Root constructed it and no later step changes it; every
\* event ToEvent returns and every event handed to the Auditor carries it.
C22_TraceIDImmutable ==
    [][\A r \in Requests :
          /\ IF rootPc[r] = "construct" /\ rootPc'[r] # "construct"
                THEN ac'[r].TraceID = nextTrace
                ELSE ac'[r].TraceID = ac[r].TraceID
          /\ attached'[r] # 0 => ac'[r].TraceID # 0
          /\ \A u \in Units :
                (on[u] = r /\ ret'[u] # ret[u]) => ret'[u].TraceID = ac[r].TraceID
          /\ delivered'[r] # delivered[r]
                => delivered'[r].TraceID = ac[r].TraceID]_vars

\* Root has returned from a request that went through For, a mutator and a
\* decorator, and its event has been handed over
C22_Witness ==
    \E r \in Requests : \E u \in Units :
        /\ rootPc[r] = "done"
        /\ started = 2
        /\ on[u] = r /\ deco[u].call = UpdateCall("r1", "d1", "d2")
        /\ ac[r].UserID = "u2"
        /\ ac[r].TraceID = 1
        /\ delivered[r].valid /\ delivered[r].TraceID = 1

\* C23 (Spec): Root does nothing before it has consulted the Skipper; for a
\* request the Skipper returned true for, no accumulator is constructed or
\* attached, NewTraceID is not invoked and Audit is never started, and Root
\* has invoked next once when it returns; with a nil Skipper no request is
\* skipped and every request gets its accumulator.
C23_SkipperBypass ==
    /\ nextTrace = 1 + Cardinality({q \in Requests : attached[q] # 0})
    /\ \A r \in Requests :
          /\ rootPc[r] = "start" =>
                (attached[r] = 0 /\ nextCalls[r] = 0 /\ ac[r] = ZeroAc)
          /\ skipped[r] =>
                /\ attached[r] = 0 /\ on[r] = 0 /\ ac[r] = ZeroAc
                /\ audits[r] = 0 /\ audit[r] = "none" /\ ~delivered[r].valid
                /\ rootPc[r] = "done" => nextCalls[r] = 1
          /\ cfg.Skipper = Nil =>
                /\ ~skipped[r]
                /\ rootPc[r] \notin {"start", "construct"} => attached[r] # 0

\* Root has returned from a skipped request whose handler called a decorator
C23_Witness ==
    \E r \in Requests :
        /\ skipped[r]
        /\ rootPc[r] = "done"
        /\ nextCalls[r] = 1
        /\ deco[r].call = UpdateCall("r1", "d1", "d2")
        /\ nextTrace = 1

\* unit u is inside the critical section of a mutator / of ToEvent
InMutator(u) ==
    cur[u].op \in Mutators /\ pc[u] \in {"body", "chk", "make", "put", "unlock"}
InReader(u) ==
    cur[u].op = "ToEvent" /\ pc[u] \in {"lit", "ser", "runlock"}

\* C24 (CoreSpec): two units are never inside mutators of the same accumulator
\* at once, nor one inside a mutator and one inside ToEvent; a ToEvent that
\* has been called while a mutator is inside cannot take the read lock.
C24_MutualExclusion ==
    \A u, v \in Units :
        (u # v /\ on[u] # 0 /\ on[u] = on[v] /\ InMutator(u))
            => /\ ~InMutator(v)
               /\ ~InReader(v)
               /\ (cur[v].op = "ToEvent" /\ pc[v] = "lock") => ~ENABLED RLock(v)

\* a ToEvent has been called and waits while a mutator is about to write
C24_Witness ==
    \E u, v \in Units :
        /\ u # v /\ on[u] = on[v]
        /\ InMutator(u) /\ pc[u] = "body"
        /\ cur[v] = ToEventCall /\ pc[v] = "lock"

\* the status Root reads from a response (a nil response has none)
StatusOf(resp) == IF resp.isNil THEN 0 ELSE resp.Status

ForFields == {"Resource", "Action", "UserID"}

\* C26 (Spec): the step of the For middleware leads to the wrapped handler;
\* with an accumulator attached it leaves Resource and Action set to For's
\* arguments, UserID unchanged when no extractor is configured and otherwise
\* unchanged or the extractor's value, and every other field as it was;
\* with none attached it changes no accumulator.
C26_ForSetsTarget ==
    [][\A r \in Requests :
          (rootPc[r] = "for" /\ rootPc'[r] # "for")
              => /\ rootPc'[r] = "handler"
                 /\ heap' = heap
                 /\ IF attached[r] # 0
                      THEN /\ ac'[r].Resource = ForResource
                           /\ ac'[r].Action = ForAction
                           /\ cfg.UserFromContext = Nil
                                 => ac'[r].UserID = ac[r].UserID
                           /\ ac'[r].UserID \in {ac[r].UserID, "u1"}
                           /\ \A f \in DOMAIN ZeroAc \ ForFields :
                                 ac'[r][f] = ac[r][f]
                      ELSE ac' = ac]_vars

\* the handler is about to run behind For with the extractor's user
C26_Witness ==
    \E r \in Requests :
        /\ rootPc[r] = "handler"
        /\ started = 0
        /\ attached[r] = r
        /\ ac[r].Resource = ForResource /\ ac[r].Action = ForAction
        /\ ac[r].UserID = "u1"
        /\ cfg.UserFromContext # Nil

\* C27 (LiveSpec): in a running process, a non-skipped request Root has
\* returned from with Resource and Action set is eventually followed by the
\* entry of Auditor.Audit with an event that carries the request's TraceID.
C27_EventuallyAudited ==
    \A r \in Requests :
        (~skipped[r] /\ rootPc[r] = "done" /\ Trigger(ac[r]))
            ~> \/ /\ audit[r] \in {"running", "returned", "panicked"}
                  /\ delivered[r].valid
                  /\ delivered[r].TraceID = ac[r].TraceID
               \/ crashed

\* Audit has been entered after Root returned
C27_Witness ==
    \E r \in Requests :
        /\ rootPc[r] = "done" /\ Trigger(ac[r])
        /\ audit[r] = "running"
        /\ delivered[r].TraceID = 1 /\ ac[r].TraceID = 1

\* the options of AuditableUpdate have taken effect in the order listed:
\* NewData is not set before OldData, nor OldData before ResourceID
InOrder(e) ==
    /\ e.NewData # Nil => e.OldData # Nil
    /\ e.OldData # Nil => e.ResourceID # Nil

\* C28 (Spec): the options of a decorator are applied one after the other in
\* the order listed, so the accumulator and every event taken from it, also
\* one taken while an AuditableUpdate is running, never show NewData without
\* OldData nor OldData without ResourceID; an event taken between two
\* options shows the first without the later ones.
C28_OptionsInOrder ==
    /\ \A a \in Requests : InOrder(ac[a])
    /\ \A u \in Units : InOrder(ev[u]) /\ InOrder(ret[u])
    /\ \A r \in Requests : InOrder(delivered[r])

\* a ToEvent called by another unit while AuditableUpdate was running has
\* returned an event with the ResourceID of that call and neither OldData
\* nor NewData
C28_Witness ==
    \E u, v \in Units :
        /\ u # v /\ on[u] = on[v] /\ on[u] # 0
        /\ started = 2
        /\ deco[u].call = UpdateCall("r1", "d1", "d2")
        /\ opts[u] # << >>
        /\ cur[v] = ToEventCall /\ pc[v] = "idle"
        /\ ret[v].valid
        /\ ret[v].ResourceID = "r1"
        /\ ret[v].OldData = Nil /\ ret[v].NewData = Nil

\* unit u is in the merge loop of SetMetadata or SetBulkMetadata, or past it
Merging(u) ==
    /\ on[u] # 0
    /\ cur[u].op \in MergeOps
    /\ pc[u] \in {"put", "unlock"}

\* C29 (CoreSpec): while a merge holds the lock, every key of its argument
\* that the loop has written holds the value of the argument, whatever the
\* key held before, and every key that is not in the argument holds what the
\* calls before it left there.
C29_MergeOverwrites ==
    \A u \in Units :
        Merging(u) =>
            LET now == Deref(heap, ac[on[u]].Metadata)
                arg == cur[u].m
            IN  \A k \in Keys :
                    /\ (k \in KeysOf(arg) \ todo[u]) => now[k] = arg[k]
                    /\ k \notin KeysOf(arg) => now[k] = lastLocked[on[u]].Metadata[k]

\* SetMetadata("a", 2) is about to return on a mapping that another unit's
\* SetBulkMetadata({a:1, b:2}) had filled: a is overwritten, b is kept
C29_Witness ==
    \E u, v \in Units :
        /\ u # v /\ on[u] = on[v] /\ on[u] # 0
        /\ started = 2
        /\ cur[v] = SetBulkMetadataCall(MapAB(1, 2)) /\ pc[v] = "idle"
        /\ cur[u] = SetMetadataCall("a", 2) /\ pc[u] = "unlock"
        /\ Deref(heap, ac[on[u]].Metadata) = MapAB(2, 2)

\* unit u holds the mutex of its accumulator, for writing or for reading
Holds(u) == on[u] # 0 /\ (mu[on[u]].w = u \/ u \in mu[on[u]].r)

\* C30 (LiveCoreSpec): every mutator or ToEvent call that has begun
\* eventually returns, whatever the other calls on the accumulator do; no
\* unit is out of a call while holding the mutex, and once every call has
\* returned the mutex is free.
C30_DeadlockFree ==
    /\ \A u \in Units : (pc[u] # "idle") ~> (pc[u] = "idle")
    /\ [](\A u \in Units : pc[u] = "idle" => ~Holds(u))
    /\ [](\A a \in Requests : AllIdle(a) => mu[a] = Unlocked)

\* a merge of one unit and a ToEvent of another have both returned, the
\* ToEvent after the merge had written, and the mutex is free
C30_Witness ==
    \E u, v \in Units :
        /\ u # v /\ on[u] = on[v] /\ on[u] # 0
        /\ started = 2
        /\ cur[u] = SetBulkMetadataCall(MapAB(1, 2)) /\ pc[u] = "idle"
        /\ cur[v] = ToEventCall /\ pc[v] = "idle"
        /\ ret[v].valid /\ ret[v].Metadata # 0
        /\ mu[on[u]] = Unlocked

\* the singleton, once built, is never replaced, and it is built once a
\* Configure call has returned
SingletonKept == (~mw.isNil => mw' = mw) /\ (confLog'.returned > 0 => ~mw'.isNil)

\* unit u has made a Root() or For() call, which has ended
Wired(u) == wire[u].op \in {"Root", "For"} /\ wire[u].out # "none"

\* C31 (ConfSpec): the singleton built by the first Configure is never
\* replaced by a later or a concurrent Configure, and a Root() or For() call
\* panics if and only if no Configure call had returned when it was made.
C31_ConfigureOnce ==
    /\ [][SingletonKept]_vars
    /\ [](\A u \in Units : Wired(u) => (wire[u].out = "panic" <=> wire[u].early))

\* C31 amended (ConfSpec): the singleton built by the first Configure is
\* never replaced by a later or a concurrent Configure; a Root() or For()
\* call panics only if no Configure call had returned when it was made, and
\* always panics if no Configure call had begun; a call made while the first
\* Configure is running may panic or return the middleware.
C31_ConfigureOnceAmended ==
    /\ [][SingletonKept]_vars
    /\ [](\A u \in Units :
            Wired(u) => /\ wire[u].out = "panic" => wire[u].early
                        /\ wire[u].fresh => wire[u].out = "panic")

\* two units have called Configure with different configurations, both calls
\* have returned, and the singleton holds one of the two
C31_Witness ==
    \E u, v \in Units :
        /\ u # v
        /\ wire[u].op = "Configure" /\ wire[v].op = "Configure"
        /\ wire[u].cfg # wire[v].cfg
        /\ confLog.returned = 2
        /\ mw = NewEchoMiddleware(wire[u].cfg)

\* the caller-set fields as an event carries them: data serialized
Carried(x) ==
    [UserID |-> x.UserID, ResourceID |-> x.ResourceID,
     OldData |-> Encoded(x.OldData), NewData |-> Encoded(x.NewData)]

\* request r is inside the ToEvent that Root calls, about to return from it
Snapshotting(r) == rootPc[r] = "toevent" /\ pc[r] = "runlock"

\* the event is there when the delivery unit exists and when Root has
\* returned after a go statement
SnapshotFirst ==
    \A r \in Requests :
        /\ audit[r] # "none" => delivered[r].valid
        /\ (rootPc[r] = "done" /\ audits[r] > 0) => delivered[r].valid

\* the event handed over is never changed in the caller-set fields
SnapshotFrozen ==
    \A r \in Requests :
        delivered[r].valid => CallerFields(delivered'[r]) = CallerFields(delivered[r])

\* C32 (Spec): the event is built before the delivery unit is started and
\* before Root returns; its UserID, ResourceID, OldData and NewData are those
\* the accumulator had when the handler chain returned, and nothing that
\* happens later changes them.
C32_SnapshotAtReturn ==
    /\ []SnapshotFirst
    /\ [](\A r \in Requests :
            delivered[r].valid => CallerFields(delivered[r]) = Carried(handled[r]))
    /\ [][SnapshotFrozen]_vars

\* the event Root's own ToEvent returned is the one handed over, unchanged
SnapshotHandedOver ==
    \A r \in Requests :
        /\ (Snapshotting(r) /\ pc'[r] # pc[r]) => ret'[r] = ev[r]
        /\ (rootPc[r] = "toevent" /\ pc[r] = "idle" /\ rootPc'[r] = "toevent")
              => ret'[r] = ret[r]
        /\ delivered'[r] # delivered[r]
              => (rootPc[r] = "toevent" /\ pc[r] = "idle" /\ delivered'[r] = ret[r])

\* C32 amended (Spec): the event is built by the request's own unit before
\* the delivery unit is started and before Root returns; its UserID,
\* ResourceID, OldData and NewData are those the accumulator has while that
\* ToEvent holds the read lock, which are those at the return of the handler
\* chain when no other unit holds the accumulator; nothing that happens
\* later changes them.
C32_SnapshotInRoot ==
    /\ []SnapshotFirst
    /\ [](\A r \in Requests :
            Snapshotting(r) => CallerFields(ev[r]) = Carried(ac[r]))
    /\ [](\A r \in Requests :
            (delivered[r].valid /\ \A w \in Workers : on[w] # r)
                => CallerFields(delivered[r]) = Carried(handled[r]))
    /\ [][SnapshotHandedOver /\ SnapshotFrozen]_vars

\* Root has returned and the delivery unit runs; a worker's SetUserID has
\* returned since, and the event handed over does not show its value
C32_Witness ==
    \E r \in Requests, w \in Workers :
        /\ rootPc[r] = "done"
        /\ audit[r] = "running"
        /\ on[w] = r
        /\ cur[w] = SetUserIDCall("u2") /\ pc[w] = "idle"
        /\ ac[r].UserID = "u2"
        /\ delivered[r].valid
        /\ delivered[r].UserID # "u2"

====
